---- MODULE Spec2Model ----
(***************************************************************************)
(* The App component of the image-processing workflow simulator: its React *)
(* state, the FileReader effect, the file and option inputs, and the async *)
(* handler handleStartWorkflow with the three operations it launches       *)
(* (generateProcessingCode, generateMonitoringLogs, applyImageProcessing). *)
(* Every await of the handler is a point where other events interleave, so *)
(* the handler is split into one action per synchronous segment.           *)
(***************************************************************************)
EXTENDS Integers, FiniteSets, Sequences, TLC

VARIABLES
    imageFile,          \* useState<File | null>
    imageUrl,           \* useState<string | null>, the data URL of a read file
    processedImageUrl,  \* useState<string | null>
    options,            \* useState<ProcessingOptions>
    currentStep,        \* useState<WorkflowStep>
    pythonCode,         \* useState<string>
    cloudwatchLogs,     \* useState<string>
    isLoading,          \* useState<boolean>
    error,              \* useState<string | null>
    pendingReads,       \* files whose FileReader has not fired onloadend yet
    runs                \* the invocations of handleStartWorkflow, by slot

vars == <<imageFile, imageUrl, processedImageUrl, options, currentStep,
          pythonCode, cloudwatchLogs, isLoading, error, pendingReads, runs>>

ui == <<processedImageUrl, currentStep, pythonCode, cloudwatchLogs, error>>

-----------------------------------------------------------------------------
(* Bounds of the model *)

\* Number of distinct files the user can pick.
NumFiles == 2

\* Number of invocations of handleStartWorkflow the model can hold at once.
MaxRuns == 2

FileNames == <<"a.png", "b.png", "c.png", "d.png">>

Slots == 1..MaxRuns

-----------------------------------------------------------------------------
(* types.ts *)

UPLOAD == 0
PROCESS == 1
MONITOR == 2
DONE == 3

Sizes == {"thumbnail", "medium", "large"}
Filters == {"none", "grayscale", "sepia", "invert"}

-----------------------------------------------------------------------------
(* Values *)

\* A File object: its name and its content.
File(i) == [name |-> FileNames[i], bytes |-> i]
Files == {File(i) : i \in 1..NumFiles}

\* null, for the File-typed and the string-typed state.
NoFile == [name |-> "", bytes |-> 0]
NullUrl == [mime |-> "", payload |-> 0]
Null == "null"

\* FileReader.readAsDataURL: the data URL that encodes the file's content.
readAsDataURL(file) == [mime |-> "image/*", payload |-> file.bytes]

-----------------------------------------------------------------------------
(* services/geminiService.ts *)

\* getProcessingDimensions without its 'large' case, which then takes the
\* default.
getProcessingDimensionsNoLarge(size) ==
    CASE size = "thumbnail" -> [width |-> 150, height |-> 150]
      [] size = "medium"    -> [width |-> 500, height |-> 500]
      [] OTHER              -> [width |-> 500, height |-> 500]

getProcessingDimensions(size) ==
    CASE size = "thumbnail" -> [width |-> 150, height |-> 150]
      [] size = "medium"    -> [width |-> 500, height |-> 500]
      [] size = "large"     -> [width |-> 1024, height |-> 1024]
      [] OTHER              -> [width |-> 500, height |-> 500]

\* The text the model answers with; opaque to the application.
CodeText == "def lambda_handler(event, context): ..."
LogsText == "START RequestId ... END ... REPORT ..."

\* The settled promise of generateProcessingCode when the remote call threw
\* (ok = FALSE) or answered (ok = TRUE), in a variant that rethrows.
CodeOutcomeRethrow(ok) ==
    IF ok THEN [status |-> "fulfilled", value |-> CodeText, remote |-> "ok"]
          ELSE [status |-> "rejected", value |-> "", remote |-> "failed"]

\* The settled promise of generateProcessingCode: the try/catch around the
\* remote call returns a string in both cases, so the promise always fulfils.
CodeOutcome(ok) ==
    IF ok THEN [status |-> "fulfilled", value |-> CodeText, remote |-> "ok"]
          ELSE [status |-> "fulfilled",
                value |-> "Error: Could not generate code.",
                remote |-> "failed"]

\* The settled promise of generateMonitoringLogs, likewise.
LogsOutcome(ok) ==
    IF ok THEN [status |-> "fulfilled", value |-> LogsText, remote |-> "ok"]
          ELSE [status |-> "fulfilled",
                value |-> "Error: Could not generate logs.",
                remote |-> "failed"]

-----------------------------------------------------------------------------
(* applyImageProcessing *)

CanvasDimensions(size) ==
    CASE size = "thumbnail" -> 150
      [] size = "medium"    -> 500
      [] size = "large"     -> 1024

filterCss(filter) ==
    CASE filter = "grayscale" -> "grayscale(100%)"
      [] filter = "sepia"     -> "sepia(100%)"
      [] filter = "invert"    -> "invert(100%)"
      [] OTHER                -> "none"

\* canvas.toDataURL('image/jpeg') after drawImage of the source on a
\* dimensions x dimensions canvas under ctx.filter.
ProcessedImage(src, opts) ==
    [mime |-> "image/jpeg", payload |-> src.payload,
     width |-> CanvasDimensions(opts.size),
     height |-> CanvasDimensions(opts.size),
     filter |-> filterCss(opts.filter)]

\* The settled promise: "loaded" is img.onload with a 2d context, "noctx" is
\* img.onload without one, "error" is img.onerror.
ImageOutcome(how, src, opts) ==
    IF how = "loaded"
    THEN [status |-> "fulfilled", value |-> ProcessedImage(src, opts)]
    ELSE [status |-> "rejected", value |-> NullUrl]

ImageEvents == {"loaded", "noctx", "error"}

-----------------------------------------------------------------------------
(* One invocation of handleStartWorkflow *)

NoCode == [status |-> "none", value |-> "", remote |-> "none",
           width |-> 0, height |-> 0]
NoLogs == [status |-> "none", value |-> "", remote |-> "none",
           filename |-> "", width |-> 0, height |-> 0]
NoImg == [status |-> "none", value |-> NullUrl, src |-> NullUrl]

IdleRun == [pc |-> "idle", file |-> NoFile, url |-> NullUrl,
            options |-> [size |-> "medium", filter |-> "none"],
            code |-> NoCode, logs |-> NoLogs, img |-> NoImg]

\* The handler is running: between its first line and its finally block.
\* When it returns, its closure is gone and the slot is IdleRun again.
Active(run) == run.pc \in {"upload", "join", "monitor"}

Settled(op) == op.status \in {"fulfilled", "rejected"}

\* Promise.race-like join: one settled operation is enough.
AnySettled(run) ==
    Settled(run.code) \/ Settled(run.logs) \/ Settled(run.img)

\* Promise.allSettled([codePromise, logsPromise, processedImagePromise])
AllSettled(run) ==
    Settled(run.code) /\ Settled(run.logs) /\ Settled(run.img)

-----------------------------------------------------------------------------
Init ==
    /\ imageFile = NoFile
    /\ imageUrl = NullUrl
    /\ processedImageUrl = NullUrl
    /\ options = [size |-> "medium", filter |-> "none"]
    /\ currentStep = UPLOAD
    /\ pythonCode = ""
    /\ cloudwatchLogs = ""
    /\ isLoading = FALSE
    /\ error = Null
    /\ pendingReads = {}
    /\ runs = [r \in Slots |-> IdleRun]

resetWorkflow ==
    /\ processedImageUrl' = NullUrl
    /\ currentStep' = UPLOAD
    /\ pythonCode' = ""
    /\ cloudwatchLogs' = ""
    /\ error' = Null

\* onChange of the file input; the effect on [imageFile] then starts a
\* FileReader for the new file.
handleFileChange(f) ==
    /\ imageFile' = f
    /\ resetWorkflow
    /\ pendingReads' = pendingReads \cup {f}
    /\ UNCHANGED <<imageUrl, options, isLoading, runs>>

\* reader.onloadend: fires after a successful read (result is the data URL)
\* and after a failed one (result is null). Readers of earlier files are never
\* aborted and finish in any order.
ReaderLoadEnd(f, ok) ==
    /\ f \in pendingReads
    /\ pendingReads' = pendingReads \ {f}
    /\ imageUrl' = IF ok THEN readAsDataURL(f) ELSE NullUrl
    /\ UNCHANGED <<imageFile, options, isLoading, runs, ui>>

SetSize(s) ==
    /\ options' = [options EXCEPT !.size = s]
    /\ UNCHANGED <<imageFile, imageUrl, isLoading, pendingReads, runs, ui>>

SetFilter(fl) ==
    /\ options' = [options EXCEPT !.filter = fl]
    /\ UNCHANGED <<imageFile, imageUrl, isLoading, pendingReads, runs, ui>>

\* A button that is disabled only while no file is selected.
isButtonDisabledNoLoading == imageFile = NoFile

isButtonDisabled == imageFile = NoFile \/ isLoading

\* The slot a new invocation takes: the first one not running.
FreeSlot == CHOOSE r \in Slots :
    /\ ~Active(runs[r])
    /\ \A q \in Slots : q < r => Active(runs[q])

\* onClick of the Start button, up to the first await.
handleStartWorkflow ==
    /\ ~isButtonDisabled
    /\ \E r \in Slots : ~Active(runs[r])
    /\ IF imageFile = NoFile \/ imageUrl = NullUrl
       THEN UNCHANGED vars
       ELSE /\ isLoading' = TRUE
            /\ resetWorkflow
            /\ runs' = [runs EXCEPT ![FreeSlot] =
                          [IdleRun EXCEPT !.pc = "upload",
                                          !.file = imageFile,
                                          !.url = imageUrl,
                                          !.options = options]]
            /\ UNCHANGED <<imageFile, imageUrl, options, pendingReads>>

\* After the first timer: setCurrentStep(PROCESS) and the three calls, each
\* of which runs to its own first await; then the handler awaits allSettled.
UploadTimer(r) ==
    LET run == runs[r]
        dim == getProcessingDimensions(run.options.size)
    IN  /\ run.pc = "upload"
        /\ currentStep' = PROCESS
        /\ runs' = [runs EXCEPT ![r] =
              [run EXCEPT !.pc = "join",
                          !.code = [NoCode EXCEPT !.status = "pending",
                                                  !.width = dim.width,
                                                  !.height = dim.height],
                          !.logs = [NoLogs EXCEPT !.status = "pending",
                                                  !.filename = run.file.name,
                                                  !.width = dim.width,
                                                  !.height = dim.height],
                          !.img = [NoImg EXCEPT !.status = "pending",
                                                !.src = run.url]]]
        /\ UNCHANGED <<imageFile, imageUrl, options, isLoading, pendingReads,
                       processedImageUrl, pythonCode, cloudwatchLogs, error>>

CodeSettle(r, ok) ==
    LET run == runs[r]
        out == CodeOutcome(ok)
    IN  /\ run.pc = "join"
        /\ run.code.status = "pending"
        /\ runs' = [runs EXCEPT ![r].code.status = out.status,
                                ![r].code.value = out.value,
                                ![r].code.remote = out.remote]
        /\ UNCHANGED <<imageFile, imageUrl, options, isLoading, pendingReads, ui>>

LogsSettle(r, ok) ==
    LET run == runs[r]
        out == LogsOutcome(ok)
    IN  /\ run.pc = "join"
        /\ run.logs.status = "pending"
        /\ runs' = [runs EXCEPT ![r].logs.status = out.status,
                                ![r].logs.value = out.value,
                                ![r].logs.remote = out.remote]
        /\ UNCHANGED <<imageFile, imageUrl, options, isLoading, pendingReads, ui>>

ImageSettle(r, how) ==
    LET run == runs[r]
        out == ImageOutcome(how, run.img.src, run.options)
    IN  /\ run.pc = "join"
        /\ run.img.status = "pending"
        /\ runs' = [runs EXCEPT ![r].img.status = out.status,
                                ![r].img.value = out.value]
        /\ UNCHANGED <<imageFile, imageUrl, options, isLoading, pendingReads, ui>>

\* err.message || 'An error occurred during the workflow.'
ErrorMessage(msg) ==
    IF msg = "" THEN "An error occurred during the workflow." ELSE msg

\* A catch block without the finally: isLoading is left as it is.
CatchOnly(r, msg) ==
    /\ error' = ErrorMessage(msg)
    /\ currentStep' = UPLOAD
    /\ UNCHANGED isLoading
    /\ runs' = [runs EXCEPT ![r] = IdleRun]

\* throw new Error(msg) inside the try: the catch block, then the finally.
CatchFinally(r, msg) ==
    /\ error' = ErrorMessage(msg)
    /\ currentStep' = UPLOAD
    /\ isLoading' = FALSE
    /\ runs' = [runs EXCEPT ![r] = IdleRun]

\* The continuation of await Promise.allSettled, up to the second timer.
Join(r) ==
    LET run == runs[r]
    IN  /\ run.pc = "join"
        /\ AllSettled(run)
        /\ IF run.code.status # "fulfilled"
           THEN /\ CatchFinally(r, "Failed to generate code.")
                /\ UNCHANGED <<pythonCode, processedImageUrl, cloudwatchLogs>>
           ELSE /\ pythonCode' = run.code.value
                /\ IF run.img.status # "fulfilled"
                   THEN /\ CatchFinally(r, "Failed to process image.")
                        /\ UNCHANGED <<processedImageUrl, cloudwatchLogs>>
                   ELSE /\ processedImageUrl' = run.img.value
                        /\ currentStep' = MONITOR
                        /\ runs' = [runs EXCEPT ![r].pc = "monitor"]
                        /\ UNCHANGED <<cloudwatchLogs, error, isLoading>>
        /\ UNCHANGED <<imageFile, imageUrl, options, pendingReads>>

\* After the second timer, to the end of the handler.
MonitorTimer(r) ==
    LET run == runs[r]
    IN  /\ run.pc = "monitor"
        /\ IF run.logs.status # "fulfilled"
           THEN /\ CatchFinally(r, "Failed to generate logs.")
                /\ UNCHANGED cloudwatchLogs
           ELSE /\ cloudwatchLogs' = run.logs.value
                /\ currentStep' = DONE
                /\ isLoading' = FALSE
                /\ runs' = [runs EXCEPT ![r] = IdleRun]
                /\ UNCHANGED error
        /\ UNCHANGED <<imageFile, imageUrl, options, pendingReads,
                       processedImageUrl, pythonCode>>

\* The steps the event loop takes on its own once a run has started.
Progress ==
    \E r \in Slots :
        \/ UploadTimer(r)
        \/ \E ok \in BOOLEAN : CodeSettle(r, ok)
        \/ \E ok \in BOOLEAN : LogsSettle(r, ok)
        \/ \E how \in ImageEvents : ImageSettle(r, how)
        \/ Join(r)
        \/ MonitorTimer(r)

\* The steps of the handler and of its three operations.
Workflow ==
    \/ handleStartWorkflow
    \/ \E r \in Slots : UploadTimer(r)
    \/ \E r \in Slots, ok \in BOOLEAN : CodeSettle(r, ok)
    \/ \E r \in Slots, ok \in BOOLEAN : LogsSettle(r, ok)
    \/ \E r \in Slots, how \in ImageEvents : ImageSettle(r, how)
    \/ \E r \in Slots : Join(r)
    \/ \E r \in Slots : MonitorTimer(r)

\* The workflow under any selection of files, with the options left at their
\* initial value.
Next ==
    \/ \E f \in Files : handleFileChange(f)
    \/ \E f \in Files, ok \in BOOLEAN : ReaderLoadEnd(f, ok)
    \/ Workflow

\* The workflow under any choice of options, on one file.
OptionsNext ==
    \/ handleFileChange(File(1))
    \/ \E ok \in BOOLEAN : ReaderLoadEnd(File(1), ok)
    \/ \E s \in Sizes : SetSize(s)
    \/ \E fl \in Filters : SetFilter(fl)
    \/ Workflow

Spec == Init /\ [][Next]_vars

\* Timers fire, promise continuations run, and each operation settles.
FairSpec == Spec /\ WF_vars(Progress)

OptionsSpec == Init /\ [][OptionsNext]_vars

-----------------------------------------------------------------------------
(* Properties *)

\* The run in slot r reaches the end of the handler in this step.
Finishes(r) == Active(runs[r]) /\ ~Active(runs'[r])

Launched(run) == run.pc \in {"join", "monitor"}

\* C1: the three operations of a run are launched together, and while any
\* of them is unsettled nothing of the run has been written to the UI state:
\* pythonCode, processedImageUrl, cloudwatchLogs and error are as the reset
\* left them and currentStep is not beyond PROCESS.
C1_JoinBeforeWrite ==
    \A r \in Slots :
        /\ Launched(runs[r]) =>
              \A op \in {"code", "logs", "img"} : runs[r][op].status # "none"
        /\ (\/ runs[r].pc = "upload"
            \/ \E op \in {"code", "logs", "img"} :
                  runs[r][op].status = "pending") =>
              /\ pythonCode = ""
              /\ processedImageUrl = NullUrl
              /\ cloudwatchLogs = ""
              /\ error = Null
              /\ currentStep \in {UPLOAD, PROCESS}

\* Two operations of a run have settled, the third is outstanding, and the
\* UI still shows the PROCESS step.
C1_Witness ==
    \E r \in Slots :
        /\ runs[r].pc = "join"
        /\ runs[r].code.status = "fulfilled"
        /\ runs[r].img.status = "fulfilled"
        /\ runs[r].logs.status = "pending"
        /\ currentStep = PROCESS

\* C2: currentStep only changes UPLOAD -> PROCESS, PROCESS -> MONITOR,
\* MONITOR -> DONE, or back to UPLOAD; it never skips a step.
C2_StepOrder ==
    [][\/ currentStep' = currentStep
       \/ currentStep' = UPLOAD
       \/ currentStep = UPLOAD /\ currentStep' = PROCESS
       \/ currentStep = PROCESS /\ currentStep' = MONITOR
       \/ currentStep = MONITOR /\ currentStep' = DONE]_vars

\* C3: when a run ends, the result of every operation of it that fulfilled
\* is shown, whatever happened to the other operations.
C3_ShowsWhicheverCompleted ==
    [][\A r \in Slots : Finishes(r) =>
          /\ runs[r].code.status = "fulfilled" =>
                pythonCode' = runs[r].code.value
          /\ runs[r].img.status = "fulfilled" =>
                processedImageUrl' = runs[r].img.value
          /\ runs[r].logs.status = "fulfilled" =>
                cloudwatchLogs' = runs[r].logs.value]_vars

Outstanding(op) == {r \in Slots : runs[r][op].status = "pending"}

\* C4: at most one run is in progress, isLoading is true for as long as it
\* is, and so at most one operation of each kind (one local, two remote,
\* three in all) is outstanding.
C4_OneRunAtATime ==
    /\ Cardinality({r \in Slots : Active(runs[r])}) <= 1
    /\ (\E r \in Slots : Active(runs[r])) => isLoading
    /\ Cardinality(Outstanding("code")) <= 1
    /\ Cardinality(Outstanding("logs")) <= 1
    /\ Cardinality(Outstanding("img")) <= 1

\* All three operations of a run are outstanding, and a file other than the
\* run's has been selected meanwhile.
C4_Witness ==
    \E r \in Slots :
        /\ Outstanding("code") = {r}
        /\ Outstanding("logs") = {r}
        /\ Outstanding("img") = {r}
        /\ imageFile # runs[r].file
        /\ isLoading

ClaimedPixels(size) ==
    CASE size = "thumbnail" -> 150 [] size = "medium" -> 500 [] size = "large" -> 1024

ClaimedCss(filter) ==
    CASE filter = "none" -> "none"
      [] filter = "grayscale" -> "grayscale(100%)"
      [] filter = "sepia" -> "sepia(100%)"
      [] filter = "invert" -> "invert(100%)"

\* C5: for the options a run was started with, the width and height in both
\* prompts and the width and height of the canvas are all 150, 500 or 1024
\* for thumbnail, medium or large, and the canvas filter is the CSS filter
\* named after the option.
C5_LookupConsistent ==
    \A r \in Slots :
        LET run == runs[r]
            px == ClaimedPixels(run.options.size)
        IN  /\ Launched(run) =>
                  /\ run.code.width = px /\ run.code.height = px
                  /\ run.logs.width = px /\ run.logs.height = px
            /\ run.img.status = "fulfilled" =>
                  /\ run.img.value.width = px
                  /\ run.img.value.height = px
                  /\ run.img.value.filter = ClaimedCss(run.options.filter)

\* A run with size large and filter invert has drawn its canvas.
C5_Witness ==
    \E r \in Slots :
        /\ runs[r].options = [size |-> "large", filter |-> "invert"]
        /\ runs[r].img.status = "fulfilled"
        /\ runs[r].img.value.width = 1024
        /\ runs[r].code.width = 1024

\* C6: a run whose remote code generation or remote log generation failed
\* ends with error set to the message of that failure and currentStep at
\* UPLOAD, not at DONE.
C6_RemoteFailureEndsInError ==
    [][\A r \in Slots :
          (/\ Finishes(r)
           /\ \/ runs[r].code.remote = "failed"
              \/ runs[r].logs.remote = "failed") =>
             /\ error' \in {"Failed to generate code.", "Failed to generate logs."}
             /\ currentStep' = UPLOAD]_vars

\* C7: once applyImageProcessing has rejected in a run, the run neither sets
\* cloudwatchLogs nor moves currentStep to MONITOR or DONE, and it ends with
\* error = 'Failed to process image.', currentStep = UPLOAD, isLoading false
\* and processedImageUrl null.
C7_ImageFailure ==
    [][\A r \in Slots : runs[r].img.status = "rejected" =>
          /\ cloudwatchLogs' = ""
          /\ currentStep' \in {UPLOAD, PROCESS}
          /\ ~Launched(runs'[r]) =>
                /\ Finishes(r)
                /\ error' = "Failed to process image."
                /\ currentStep' = UPLOAD
                /\ ~isLoading'
                /\ processedImageUrl' = NullUrl]_vars

\* A run has ended on the image failure.
C7_Witness ==
    /\ error = "Failed to process image."
    /\ currentStep = UPLOAD
    /\ ~isLoading
    /\ \A r \in Slots : ~Active(runs[r])

\* C8: whenever currentStep is DONE, error is null and the code, the
\* processed image and the logs are all set.
C8_DoneIsComplete ==
    currentStep = DONE =>
        /\ error = Null
        /\ pythonCode # ""
        /\ processedImageUrl # NullUrl
        /\ cloudwatchLogs # ""

\* C9: the file name given to generateMonitoringLogs and the image data given
\* to applyImageProcessing in one run are the name and the data of one file.
C9_OneFilePerRun ==
    \A r \in Slots : Launched(runs[r]) =>
        \E f \in Files :
            /\ runs[r].logs.filename = f.name
            /\ runs[r].img.src = readAsDataURL(f)

\* C10: isLoading, once true, becomes false again, and the step that makes
\* it false leaves currentStep at DONE, or at UPLOAD with an error.
C10_RunFinishes ==
    /\ isLoading ~> ~isLoading
    /\ [][(isLoading /\ ~isLoading') =>
            \/ currentStep' = DONE
            \/ currentStep' = UPLOAD /\ error' # Null]_vars

\* A run has ended at DONE with everything shown.
C10_Witness ==
    /\ ~isLoading
    /\ currentStep = DONE
    /\ cloudwatchLogs = LogsText
    /\ \A r \in Slots : ~Active(runs[r])

====
